---- MODULE Spec2Model ----
(***************************************************************************)
(* The operator handlers of torch2trt/handlers/ops.py as a state machine.  *)
(* A state is the active-network slot, the node handled last and what its  *)
(* handler did: the layer-construction calls it issued against the active  *)
(* builder, its outputs, and the left operand after an in-place fallback.  *)
(* The builder is external and append-only: handlers only add layers, so   *)
(* the network is its layer count plus the calls of the current node; the  *)
(* builder records every call it is given.                                 *)
(***************************************************************************)
EXTENDS Integers, Sequences, FiniteSets

VARIABLES network, node, result

vars == <<network, node, result>>

\* Most layers one conversion pass may hold before the driver ends it.
MaxLayers == 3

\* The sentinel above which a batch-axis slice end means "to the end".
SLICE_END_SENTINEL == 100000000

\* ------------------------------------------------------------- input values
\* A symbolic tensor handle: shape without the batch axis; layer = 0 for a
\* handle that existed before the current node, else the index of the layer
\* whose output it is.
ITensor(shape) == [kind |-> "trt", layer |-> 0, shape |-> shape]

\* A real tensor: shape and flat data (data is enumerated only for the small
\* tensors whose values a handler reads).
Tensor(shape, data, dtype) ==
    [kind |-> "torch", shape |-> shape, data |-> data, dtype |-> dtype]

\* A plain number, flag or None, carried by value.
Scalar(v) == [kind |-> "scalar", val |-> v]

NoneValue == [kind |-> "none"]

\* A list of plain integers (kernel size, stride, permutation, axes, ...).
IntList(items) == [kind |-> "list", items |-> items]

\* A list of tensors (the operand list of aten::cat).
TensorList(items) == [kind |-> "tensors", items |-> items]

\* The result of a real-tensor library call whose value no handler reads.
TorchResult(fn) == [kind |-> "torch", fn |-> fn]

\* ---------------------------------------------------------- python helpers
Min(a, b) == IF a < b THEN a ELSE b

\* xs[1:]
Rest(xs) == IF Len(xs) = 0 THEN <<>> ELSE Tail(xs)

\* all([p(e) for e in xs]) for the three tests the handlers use
AllEq(xs, v) == \A i \in 1..Len(xs) : xs[i] = v

AllPositive(xs) == \A i \in 1..Len(xs) : xs[i] > 0

\* zip(a, b): the pairs up to the shorter length
ZipLen(a, b) == Min(Len(a), Len(b))

\* number of elements of an array of the given shape (numpy .size)
RECURSIVE NumElements(_)
NumElements(shape) ==
    IF Len(shape) = 0 THEN 1 ELSE Head(shape) * NumElements(Tail(shape))

\* ------------------------------------------------------- context accessors
\* current_network(): the slot itself; "net is not None" is net.active.
current_network == network

IsITensor(x) == x.kind = "trt"

IsTorchTensor(x) == x.kind = "torch"

\* has_trt_tensor(inputs): some element, or some element of a tensor list
\* one level down, is a symbolic handle.
has_trt_tensor(inputs) ==
    \E i \in 1..Len(inputs) :
        \/ IsITensor(inputs[i])
        \/ /\ inputs[i].kind = "tensors"
           /\ \E j \in 1..Len(inputs[i].items) : IsITensor(inputs[i].items[j])

\* ------------------------------------------------------- handler outcomes
\* calls: the layers the handler added, in order, also when it failed later.
\* mut: <<the left operand after the call>> when the fallback mutated it.
\* alias: the position of the input that the first output is (the same
\* object), 0 when the output is a new value.
Ok(outputs, calls) ==
    [status |-> "ok", outputs |-> outputs, calls |-> calls, mut |-> <<>>,
     alias |-> 0]

Fail(calls) ==
    [status |-> "fail", outputs |-> <<>>, calls |-> calls, mut |-> <<>>,
     alias |-> 0]

\* return [inputs[0]]
PassThrough(inp) == [Ok(<<inp>>, <<>>) EXCEPT !.alias = 1]

\* The builder's shape for a layer's first output, for the layers whose
\* output shape a handler reads back or that keep their input's shape.
OutputShape(layer) ==
    CASE layer.type = "slice" -> layer.shape
      [] layer.type = "shuffle" /\ "reshape_dims" \in DOMAIN layer -> layer.reshape_dims
      [] layer.type \in {"activation", "scale"} /\ IsITensor(layer.input) -> layer.input.shape
      [] layer.type = "constant" -> layer.shape
      [] OTHER -> <<>>

\* layer.get_output(0) of the k-th layer added by this node
get_output(net, k, layer) ==
    [kind |-> "trt", layer |-> net.nlayers + k, shape |-> OutputShape(layer)]

\* A handler that adds one layer and returns its output.
OneLayer(net, layer) == Ok(<<get_output(net, 1, layer)>>, <<layer>>)

\* --------------------------------------------------------------- handlers
\* A gate that looks at the network slot alone.
ConversionModeNetOnly(net, inputs) == net.active

\* The gate every handler but aten::relu uses.
ConversionMode(net, inputs) == net.active /\ has_trt_tensor(inputs)

aten_view(net, inputs) ==
    IF Len(inputs) # 2 THEN Fail(<<>>)
    ELSE IF ConversionMode(net, inputs)
    THEN LET shape0 == Rest(inputs[2].items)
             shape  == IF Len(shape0) = 1 THEN shape0 \o <<1, 1>> ELSE shape0
         IN  OneLayer(net, [type |-> "shuffle", input |-> inputs[1],
                            reshape_dims |-> shape])
    ELSE Ok(<<TorchResult("view")>>, <<>>)

aten_convolution(net, inputs) ==
    LET inp == inputs[1]
        weight == inputs[2]
        bias == inputs[3]
        stride == inputs[4].items
        pad == inputs[5].items
        dilation == inputs[6].items
        transposed == inputs[7].val # 0
        output_padding == inputs[8].items
        groups == inputs[9].val
    IN
    IF ConversionMode(net, inputs)
    THEN IF ~AllEq(output_padding, 0) THEN Fail(<<>>)
         ELSE IF Len(weight.shape) < 2 THEN Fail(<<>>)
         ELSE LET ksize == SubSeq(weight.shape, 3, Len(weight.shape))
                  O == IF transposed THEN weight.shape[2] * groups
                       ELSE weight.shape[1]
              IN
              IF Len(ksize) # 2 THEN Fail(<<>>)
              ELSE IF transposed
              THEN OneLayer(net, [type |-> "deconvolution", input |-> inp,
                                  num_output_maps |-> O, kernel |-> ksize,
                                  has_bias |-> bias.kind # "none",
                                  stride |-> stride, padding |-> pad,
                                  num_groups |-> groups])
              ELSE OneLayer(net, [type |-> "convolution", input |-> inp,
                                  num_output_maps |-> O, kernel |-> ksize,
                                  has_bias |-> bias.kind # "none",
                                  dilation |-> dilation,
                                  stride |-> stride, padding |-> pad,
                                  num_groups |-> groups])
    ELSE IF Len(stride) # 2 THEN Fail(<<>>)
    ELSE IF transposed THEN Ok(<<TorchResult("conv_transpose2d")>>, <<>>)
    ELSE Ok(<<TorchResult("conv2d")>>, <<>>)

aten_batch_norm(net, inputs) ==
    IF ConversionMode(net, inputs)
    THEN OneLayer(net, [type |-> "scale", mode |-> "CHANNEL",
                        input |-> inputs[1],
                        shift |-> <<"bn_shift">>, scale |-> <<"bn_scale">>,
                        power |-> <<"ones_like">>])
    ELSE Ok(<<TorchResult("batch_norm")>>, <<>>)

aten_relu_(net, inputs) ==
    IF ConversionMode(net, inputs)
    THEN OneLayer(net, [type |-> "activation", input |-> inputs[1],
                        act |-> "RELU"])
    ELSE Ok(<<TorchResult("relu_")>>, <<>>)

aten_relu(net, inputs) ==
    IF net.active
    THEN OneLayer(net, [type |-> "activation", input |-> inputs[1],
                        act |-> "RELU"])
    ELSE Ok(<<TorchResult("relu")>>, <<>>)

aten_max_pool2d(net, inputs) ==
    LET inp == inputs[1]
        ksize == inputs[2].items
        stride == inputs[3].items
        pad == inputs[4].items
        dilation == inputs[5].items
        layer == [type |-> "pooling", input |-> inp, pool |-> "MAX",
                  window |-> ksize, stride |-> stride, padding |-> pad]
    IN
    IF ConversionMode(net, inputs)
    THEN IF ~AllEq(dilation, 1) THEN Fail(<<layer>>)
         ELSE OneLayer(net, layer)
    ELSE Ok(<<TorchResult("max_pool2d")>>, <<>>)

aten_avg_pool2d(net, inputs) ==
    LET inp == inputs[1]
        ksize == inputs[2].items
        stride == inputs[3].items
        pad == inputs[4].items
        count_include_pad == inputs[6].val # 0
    IN
    IF ConversionMode(net, inputs)
    THEN OneLayer(net, [type |-> "pooling", input |-> inp, pool |-> "AVERAGE",
                        window |-> ksize, stride |-> stride, padding |-> pad,
                        average_count_excludes_padding |-> ~count_include_pad])
    ELSE Ok(<<TorchResult("avg_pool2d")>>, <<>>)

\* ksize = [i // k for i, k in zip(inp_shape, ksize)]; a zero target raises.
AdaptiveKernel(inp_shape, target) ==
    [j \in 1..ZipLen(inp_shape, target) |-> inp_shape[j] \div target[j]]

\* all([i % k == 0 for i, k in zip(inp_shape, ksize)]) with ksize rebound to
\* the kernel computed above; a zero kernel raises.
AdaptiveAssert(inp_shape, ksize) ==
    \A j \in 1..ZipLen(inp_shape, ksize) :
        ksize[j] # 0 /\ inp_shape[j] % ksize[j] = 0

aten_adaptive_avg_pool2d(net, inputs) ==
    LET inp == inputs[1]
        target == inputs[2].items
    IN
    IF ConversionMode(net, inputs)
    THEN LET inp_shape == Rest(inp.shape)
         IN  IF \E j \in 1..ZipLen(inp_shape, target) : target[j] = 0
             THEN Fail(<<>>)
             ELSE LET ksize == AdaptiveKernel(inp_shape, target)
                  IN  IF ~AdaptiveAssert(inp_shape, ksize) THEN Fail(<<>>)
                      ELSE OneLayer(net, [type |-> "pooling", input |-> inp,
                                          pool |-> "AVERAGE", window |-> ksize])
    ELSE Ok(<<TorchResult("adaptive_avg_pool2d")>>, <<>>)

aten_dropout(net, inputs) ==
    IF ConversionMode(net, inputs)
    THEN PassThrough(inputs[1])
    ELSE Ok(<<TorchResult("dropout2d")>>, <<>>)

aten_addmm(net, inputs) ==
    LET mat_to_add == inputs[1]
        mat1 == inputs[2]
        mat2 == inputs[3]
        beta == inputs[4].val
        alpha == inputs[5].val
    IN
    IF ConversionMode(net, inputs)
    THEN IF ~(beta = 1 /\ alpha = 1) THEN Fail(<<>>)
         ELSE IF Len(mat_to_add.shape) # 1 THEN Fail(<<>>)
         ELSE OneLayer(net, [type |-> "fully_connected", input |-> mat1,
                             num_outputs |-> mat2.shape[2]])
    ELSE Ok(<<TorchResult("addmm")>>, <<>>)

\* aten::cat with the axis test off by one (dim >= 0).
aten_cat_accepts_batch(net, inputs) ==
    LET tensors == inputs[1].items
        dim == inputs[2].val
    IN
    IF net.active /\ has_trt_tensor(tensors)
    THEN IF ~(dim >= 0) THEN Fail(<<>>)
         ELSE OneLayer(net, [type |-> "concatenation", inputs |-> tensors,
                             axis |-> dim - 1])
    ELSE Ok(<<TorchResult("cat")>>, <<>>)

aten_cat(net, inputs) ==
    LET tensors == inputs[1].items
        dim == inputs[2].val
    IN
    IF net.active /\ has_trt_tensor(tensors)
    THEN IF ~(dim > 0) THEN Fail(<<>>)
         ELSE OneLayer(net, [type |-> "concatenation", inputs |-> tensors,
                             axis |-> dim - 1])
    ELSE Ok(<<TorchResult("cat")>>, <<>>)

\* Python list indexing xs[i] on a list of length n: the 1-based position,
\* or 0 when the index is out of range (IndexError).
PyIndex(i, n) ==
    IF 0 <= i /\ i < n THEN i + 1
    ELSE IF i < 0 /\ -n <= i THEN n + i + 1
    ELSE 0

\* _trt_torch_slice: the slice layer, or failed := TRUE on an IndexError.
_trt_torch_slice(inp, dim, start, end, step) ==
    LET ndim == Len(inp.shape)
        ax == PyIndex(dim - 1, ndim)
    IN
    IF ax = 0 THEN [failed |-> TRUE]
    ELSE [failed |-> FALSE,
          layer |-> [type |-> "slice", input |-> inp,
                     start |-> [i \in 1..ndim |-> IF i = ax THEN start ELSE 0],
                     shape |-> [i \in 1..ndim |->
                                  IF i = ax
                                  THEN Min(end, inp.shape[ax]) - start
                                  ELSE inp.shape[i]],
                     stride |-> [i \in 1..ndim |-> IF i = ax THEN step ELSE 1]]]

\* The fallback's slices[dim] on a list of dim + 1 entries raises for dim < 0.
FallbackIndexable(dim) == dim >= 0

\* A short-circuit that forgets to look at start.
BatchAxisFullRangeAnyStart(start, end, step) ==
    step = 1 /\ end > SLICE_END_SENTINEL

\* The batch-axis slice that is the full range (line 242).
BatchAxisFullRange(start, end, step) ==
    start = 0 /\ step = 1 /\ end > SLICE_END_SENTINEL

aten_slice(net, inputs) ==
    LET inp == inputs[1]
        dim == inputs[2].val
        start == inputs[3].val
        end == inputs[4].val
        step == inputs[5].val
    IN
    IF ConversionMode(net, inputs)
    THEN IF dim = 0
         THEN IF BatchAxisFullRange(start, end, step)
              THEN PassThrough(inp)
              ELSE Fail(<<>>)
         ELSE IF step # 1 THEN Fail(<<>>)
         ELSE LET s == _trt_torch_slice(inp, dim, start, end, step)
              IN  IF s.failed THEN Fail(<<>>) ELSE OneLayer(net, s.layer)
    ELSE IF ~FallbackIndexable(dim) THEN Fail(<<>>)
    ELSE Ok(<<TorchResult("slice")>>, <<>>)

\* shape with the entry at 1-based position ax removed
RemoveAt(shape, ax) ==
    [i \in 1..(Len(shape) - 1) |-> IF i < ax THEN shape[i] ELSE shape[i + 1]]

\* list.insert(pos, v) with a 0-based pos >= 0 (a pos past the end appends)
InsertAt(shape, pos, v) ==
    LET p == Min(pos, Len(shape))
    IN  [i \in 1..(Len(shape) + 1) |->
            IF i <= p THEN shape[i] ELSE IF i = p + 1 THEN v ELSE shape[i - 1]]

\* _trt_squeeze: the shuffle layer, or failed := TRUE.
_trt_squeeze(inp, dim) ==
    IF ~(dim > 0) THEN [failed |-> TRUE]
    ELSE IF PyIndex(dim - 1, Len(inp.shape)) = 0 THEN [failed |-> TRUE]
    ELSE IF inp.shape[dim] # 1 THEN [failed |-> TRUE]
    ELSE [failed |-> FALSE,
          layer |-> [type |-> "shuffle", input |-> inp,
                     reshape_dims |-> RemoveAt(inp.shape, dim)]]

\* _trt_unsqueeze: the shuffle layer, or failed := TRUE.
_trt_unsqueeze(inp, dim) ==
    IF ~(dim > 0) THEN [failed |-> TRUE]
    ELSE [failed |-> FALSE,
          layer |-> [type |-> "shuffle", input |-> inp,
                     reshape_dims |-> InsertAt(inp.shape, dim - 1, 1)]]

aten_unsqueeze(net, inputs) ==
    LET inp == inputs[1]
        dim == inputs[2].val
    IN
    IF ConversionMode(net, inputs)
    THEN LET u == _trt_unsqueeze(inp, dim)
         IN  IF u.failed THEN Fail(<<>>) ELSE OneLayer(net, u.layer)
    ELSE Ok(<<TorchResult("unsqueeze")>>, <<>>)

aten_select(net, inputs) ==
    LET inp == inputs[1]
        dim == inputs[2].val
        index == inputs[3].val
    IN
    IF ConversionMode(net, inputs)
    THEN IF ~(dim > 0) THEN Fail(<<>>)
         ELSE LET s == _trt_torch_slice(inp, dim, index, index + 1, 1)
              IN
              IF s.failed THEN Fail(<<>>)
              ELSE LET output == get_output(net, 1, s.layer)
                       q == _trt_squeeze(output, dim)
                   IN  IF q.failed THEN Fail(<<s.layer>>)
                       ELSE Ok(<<get_output(net, 2, q.layer)>>,
                               <<s.layer, q.layer>>)
    ELSE IF ~FallbackIndexable(dim) THEN Fail(<<>>)
    ELSE Ok(<<TorchResult("select")>>, <<>>)

\* ----------------------------------------------- elementwise arithmetic
\* trt_op[op]
trt_op(op) ==
    CASE op = "add" -> "SUM"
      [] op = "sub" -> "SUB"
      [] op = "mul" -> "PROD"
      [] op = "div" -> "DIV"

\* Weights are exact fractions <<numerator, denominator>>.
Frac(n, d) == <<n, d>>

\* try_convert_to_constant(net, [lfs, rfs]): operands with every real tensor
\* replaced by the output of a constant layer, and the constant layers added.
\* Only torch.Tensor operands are converted; k0 layers were added before.
ConstantLayer(inp, ref_shape) ==
    [type |-> "constant",
     shape |-> IF Len(inp.shape) = 0
               THEN [i \in 1..Len(ref_shape) |-> 1]
               ELSE inp.shape,
     data |-> inp.data,
     dtype |-> IF inp.dtype = "float64" THEN "float32" ELSE inp.dtype]

try_convert_to_constant(net, lfs, rfs) ==
    LET ref_shape == IF IsITensor(rfs) THEN rfs.shape
                     ELSE IF IsITensor(lfs) THEN lfs.shape
                     ELSE <<>>
        lc == IF IsTorchTensor(lfs)
              THEN <<ConstantLayer(lfs, ref_shape)>> ELSE <<>>
        rc == IF IsTorchTensor(rfs)
              THEN <<ConstantLayer(rfs, ref_shape)>> ELSE <<>>
    IN  [lfs |-> IF IsTorchTensor(lfs) THEN get_output(net, 1, lc[1]) ELSE lfs,
         rfs |-> IF IsTorchTensor(rfs)
                 THEN get_output(net, Len(lc) + 1, rc[1]) ELSE rfs,
         calls |-> lc \o rc]

ElementwiseLayer(lfs, rfs, op) ==
    [type |-> "elementwise", lfs |-> lfs, rfs |-> rfs, op |-> trt_op(op)]

\* A fold that forgets to negate the shift of a subtraction.
ScaleLayerNoNegate(main, v, op) ==
    [type |-> "scale", mode |-> "UNIFORM", input |-> main,
     shift |-> IF op \in {"add", "sub"} THEN Frac(v, 1) ELSE Frac(0, 1),
     scale |-> CASE op = "add" -> Frac(1, 1)
                 [] op = "sub" -> Frac(1, 1)
                 [] op = "mul" -> Frac(v, 1)
                 [] op = "div" -> Frac(1, v),
     power |-> Frac(1, 1)]

\* The uniform scale layer that folds a single-element right operand.
ScaleLayer(main, v, op) ==
    [type |-> "scale", mode |-> "UNIFORM", input |-> main,
     shift |-> CASE op = "add" -> Frac(v, 1)
                 [] op = "sub" -> Frac(-v, 1)
                 [] op = "mul" -> Frac(0, 1)
                 [] op = "div" -> Frac(0, 1),
     scale |-> CASE op = "add" -> Frac(1, 1)
                 [] op = "sub" -> Frac(1, 1)
                 [] op = "mul" -> Frac(v, 1)
                 [] op = "div" -> Frac(1, v),
     power |-> Frac(1, 1)]

\* Whether the right operand takes the scale path (lines 319-323).
UsesScale(lfs, rfs) == IsTorchTensor(rfs) /\ NumElements(rfs.shape) = 1

\* What the constant path hands to add_elementwise.
ConstantPath(net, lfs, rfs, op) ==
    LET c == try_convert_to_constant(net, lfs, rfs)
        layer == ElementwiseLayer(c.lfs, c.rfs, op)
    IN  Ok(<<get_output(net, Len(c.calls) + 1, layer)>>,
           c.calls \o <<layer>>)

_scale_or_elementwise(net, lfs, rfs, op) ==
    IF op \notin {"add", "sub", "mul", "div"} THEN Fail(<<>>)
    ELSE IF IsTorchTensor(lfs) /\ IsTorchTensor(rfs) THEN Fail(<<>>)
    ELSE IF IsITensor(lfs) /\ IsITensor(rfs)
    THEN OneLayer(net, ElementwiseLayer(lfs, rfs, op))
    ELSE IF UsesScale(lfs, rfs)
    THEN OneLayer(net, ScaleLayer(lfs, rfs.data[1], op))
    ELSE ConstantPath(net, lfs, rfs, op)

\* --- real arithmetic of the fallback paths, on tensors of rank <= 1
IsNumber(x) == x.kind = "scalar"

\* The broadcast shape of two shapes of rank <= 1, <<-1>> when incompatible.
BroadcastShape(a, b) ==
    IF Len(a) = 0 THEN b
    ELSE IF Len(b) = 0 THEN a
    ELSE IF a[1] = b[1] \/ b[1] = 1 THEN a
    ELSE IF a[1] = 1 THEN b
    ELSE <<-1>>

Elem(data, i) == IF Len(data) = 1 THEN data[1] ELSE data[i]

Apply(f, x, y) ==
    CASE f = "add" -> x + y
      [] f = "sub" -> x - y
      [] f = "mul" -> x * y
      [] f = "div" -> Frac(x, y)

\* Type promotion between two floating tensors.
Promote(a, b) == IF "float64" \in {a, b} THEN "float64" ELSE "float32"

\* lfs <f> rfs for real tensors and plain numbers: a value, or NoneValue
\* when the library raises (shapes that do not broadcast).
RealBinary(f, lfs, rfs) ==
    IF IsNumber(lfs) /\ IsNumber(rfs) THEN Scalar(Apply(f, lfs.val, rfs.val))
    ELSE LET ls == IF IsNumber(lfs) THEN <<>> ELSE lfs.shape
             rs == IF IsNumber(rfs) THEN <<>> ELSE rfs.shape
             ld == IF IsNumber(lfs) THEN <<lfs.val>> ELSE lfs.data
             rd == IF IsNumber(rfs) THEN <<rfs.val>> ELSE rfs.data
             shape == BroadcastShape(ls, rs)
             n == NumElements(shape)
         IN  IF shape = <<-1>> THEN NoneValue
             ELSE Tensor(shape,
                         [i \in 1..n |-> Apply(f, Elem(ld, i), Elem(rd, i))],
                         IF IsNumber(lfs) THEN rfs.dtype
                         ELSE IF IsNumber(rfs) THEN lfs.dtype
                         ELSE Promote(lfs.dtype, rfs.dtype))

\* return [lfs <f> rfs]
OutOfPlace(f, lfs, rfs) ==
    LET r == RealBinary(f, lfs, rfs)
    IN  IF r.kind = "none" THEN Fail(<<>>) ELSE Ok(<<r>>, <<>>)

\* An in-place update of a real tensor keeps its shape and dtype; the
\* library raises when the broadcast result has another shape.
InPlace(f, lfs, rfs) ==
    LET r == RealBinary(f, lfs, rfs)
    IN  IF r.kind = "none" THEN Fail(<<>>)
        ELSE IF r.shape # lfs.shape THEN Fail(<<>>)
        ELSE LET new == Tensor(lfs.shape, r.data, lfs.dtype)
             IN  [Ok(<<new>>, <<>>) EXCEPT !.mut = <<new>>, !.alias = 1]

aten_mul(net, inputs) ==
    LET lfs == inputs[1]
        rfs == inputs[2]
    IN  IF ConversionMode(net, inputs)
        THEN _scale_or_elementwise(net, lfs, rfs, "mul")
        ELSE OutOfPlace("mul", lfs, rfs)

\* lfs *= rfs mutates a tensor and rebinds a plain number.
aten_mul_(net, inputs) ==
    LET lfs == inputs[1]
        rfs == inputs[2]
    IN  IF ConversionMode(net, inputs)
        THEN _scale_or_elementwise(net, lfs, rfs, "mul")
        ELSE IF IsNumber(lfs) THEN OutOfPlace("mul", lfs, rfs)
        ELSE InPlace("mul", lfs, rfs)

\* lfs.add_(rfs): a plain number has no add_.
aten_add_(net, inputs) ==
    LET lfs == inputs[1]
        rfs == inputs[2]
        alpha == inputs[3].val
    IN  IF alpha # 1 THEN Fail(<<>>)
        ELSE IF ConversionMode(net, inputs)
        THEN _scale_or_elementwise(net, lfs, rfs, "add")
        ELSE IF IsNumber(lfs) THEN Fail(<<>>)
        ELSE InPlace("add", lfs, rfs)

aten_add(net, inputs) ==
    LET lfs == inputs[1]
        rfs == inputs[2]
        alpha == inputs[3].val
    IN  IF alpha # 1 THEN Fail(<<>>)
        ELSE IF ConversionMode(net, inputs)
        THEN _scale_or_elementwise(net, lfs, rfs, "add")
        ELSE OutOfPlace("add", lfs, rfs)

aten_div(net, inputs) ==
    LET lfs == inputs[1]
        rfs == inputs[2]
    IN  IF ConversionMode(net, inputs)
        THEN _scale_or_elementwise(net, lfs, rfs, "div")
        ELSE OutOfPlace("div", lfs, rfs)

\* aten::sub without the alpha assertion.
aten_sub_any_alpha(net, inputs) ==
    LET lfs == inputs[1]
        rfs == inputs[2]
    IN  IF ConversionMode(net, inputs)
        THEN _scale_or_elementwise(net, lfs, rfs, "sub")
        ELSE OutOfPlace("sub", lfs, rfs)

aten_sub(net, inputs) ==
    LET lfs == inputs[1]
        rfs == inputs[2]
        alpha == inputs[3].val
    IN  IF alpha # 1 THEN Fail(<<>>)
        ELSE IF ConversionMode(net, inputs)
        THEN _scale_or_elementwise(net, lfs, rfs, "sub")
        ELSE OutOfPlace("sub", lfs, rfs)

\* ------------------------------------------------- reductions and layout
RECURSIVE Pow2(_)
Pow2(n) == IF n = 0 THEN 1 ELSE 2 * Pow2(n - 1)

RECURSIVE BitOr(_)
\* the bitwise or of 1 << (ax - 1) over a set of axes, each below 32
BitOr(axset) ==
    IF axset = {} THEN 0
    ELSE LET a == CHOOSE x \in axset : TRUE
         IN  Pow2(a - 1) + BitOr(axset \ {a})

\* _axes_to_trt_axis: the mask, or -1 when an axis fails ax > 0.
_axes_to_trt_axis(axes) ==
    IF ~AllPositive(axes) THEN -1
    ELSE BitOr({axes[i] : i \in 1..Len(axes)})

aten_sum(net, inputs) ==
    LET inp == inputs[1]
        axes == inputs[2].items
        keepdim == inputs[3].val # 0
    IN
    IF ConversionMode(net, inputs)
    THEN LET axis_trt == _axes_to_trt_axis(axes)
         IN  IF axis_trt = -1 THEN Fail(<<>>)
             ELSE OneLayer(net, [type |-> "reduce", input |-> inp,
                                 op |-> "SUM", axes |-> axis_trt,
                                 keep_dims |-> keepdim])
    ELSE Ok(<<TorchResult("sum")>>, <<>>)

aten_max(net, inputs) ==
    LET inp == inputs[1]
        dim == inputs[2].val
        keepdim == inputs[3].val # 0
    IN
    IF ConversionMode(net, inputs)
    THEN LET axis_trt == _axes_to_trt_axis(<<dim>>)
         IN  IF axis_trt = -1 THEN Fail(<<>>)
             ELSE LET layer == [type |-> "reduce", input |-> inp,
                                op |-> "MAX", axes |-> axis_trt,
                                keep_dims |-> keepdim]
                  IN  Ok(<<get_output(net, 1, layer), NoneValue>>, <<layer>>)
    ELSE Ok(<<TorchResult("max.values"), TorchResult("max.indices")>>, <<>>)

aten_permute(net, inputs) ==
    LET inp == inputs[1]
        params == inputs[2].items
    IN
    IF ConversionMode(net, inputs)
    THEN LET perm_params == Rest(params)
         IN  IF ~AllPositive(perm_params) THEN Fail(<<>>)
             ELSE OneLayer(net, [type |-> "shuffle", input |-> inp,
                                 first_transpose |->
                                     [i \in 1..Len(perm_params) |->
                                         perm_params[i] - 1]])
    ELSE Ok(<<TorchResult("permute")>>, <<>>)

aten_contiguous(net, inputs) ==
    IF ConversionMode(net, inputs)
    THEN PassThrough(inputs[1])
    ELSE Ok(<<TorchResult("contiguous")>>, <<>>)

aten_constant_pad_nd(net, inputs) ==
    LET inp == inputs[1]
        pad_params == inputs[2].items
        val == inputs[3].val
    IN
    IF ConversionMode(net, inputs)
    THEN IF val # 0 THEN Fail(<<>>)
         ELSE IF Len(pad_params) # 4 THEN Fail(<<>>)
         ELSE OneLayer(net, [type |-> "padding", input |-> inp,
                             pre_padding |-> <<pad_params[1], pad_params[2]>>,
                             post_padding |-> <<pad_params[3], pad_params[4]>>])
    ELSE Ok(<<TorchResult("pad")>>, <<>>)

\* ------------------------------------------------------------ input sets
\* Symbolic handles of the active builder (shapes without the batch axis).
SymTensors == {ITensor(<<2, 8, 8>>), ITensor(<<4, 7, 1>>)}

\* A real image batch; its data is not enumerated.
Image == Tensor(<<1, 2, 8, 8>>, <<>>, "float32")

\* Small real tensors whose values the arithmetic handlers read.
SmallTensors ==
    {Tensor(<<>>, <<2>>, "float32"), Tensor(<<1>>, <<3>>, "float64"),
     Tensor(<<2>>, <<2, 3>>, "float64")}

\* Symbolic handles exist only while a builder is active.
Operand(net) == IF net.active THEN SymTensors \cup {Image} ELSE {Image}

ElemOperand(net) ==
    (IF net.active THEN SymTensors ELSE {}) \cup SmallTensors \cup {Scalar(2)}

Alphas == {1, 2}

Flags == {0, 1}

Weights ==
    {Tensor(<<8, 2, 3, 3>>, <<>>, "float32"), Tensor(<<8, 2, 3>>, <<>>, "float32"),
     Tensor(<<8, 2, 3, 3, 3>>, <<>>, "float32")}

Vector == Tensor(<<8>>, <<>>, "float32")

Matrix == Tensor(<<1, 8>>, <<>>, "float32")

\* kernel / stride / padding lists for 2 and for 3 spatial dimensions
Windows == {<<2, 2>>, <<2, 2, 2>>}

Targets == {<<4, 4>>, <<3, 3>>, <<2, 2>>, <<9, 9>>, <<4>>, <<2, 2, 2>>}

SliceDims == {-1, 0, 1, 3, 4}

SliceStarts == {-1, 0, 2}

\* 2147483647 stands for the tracer's "to the end" value
SliceEnds == {1, 3, 2147483647}

SliceSteps == {1, 2}

SelectIndexes == {-1, 0, 1, 8}

UnsqueezeDims == {-1, 0, 1, 2, 4}

AxisLists == {<<1>>, <<0>>, <<2, 3>>, <<1, 0>>}

Permutations == {<<0, 2, 1, 3>>, <<0, 1, 0, 2>>, <<1, 0, 2, 3>>}

Paddings == {<<1, 1, 1, 1>>, <<1, 1>>, <<1, 1, 1, 1, 1, 1>>}

CatLists(net) ==
    {<<Image, Image>>} \cup
    (IF net.active
     THEN {<<ITensor(<<2, 8, 8>>), ITensor(<<2, 8, 8>>)>>,
           <<Image, ITensor(<<2, 8, 8>>)>>}
     ELSE {})

\* ---------------------------------------------------------- state machine
NoNode == [op |-> "none", inputs |-> <<>>, net |-> [active |-> FALSE, nlayers |-> 0]]

NoResult ==
    [status |-> "none", outputs |-> <<>>, calls |-> <<>>, mut |-> <<>>,
     alias |-> 0]

Init ==
    /\ network = [active |-> FALSE, nlayers |-> 0]
    /\ node = NoNode
    /\ result = NoResult

\* The conversion driver enters a pass: a fresh builder becomes active.
BeginConversion ==
    /\ ~network.active
    /\ network' = [active |-> TRUE, nlayers |-> 0]
    /\ node' = NoNode
    /\ result' = NoResult

\* The conversion driver leaves the pass: the slot is cleared.
EndConversion ==
    /\ network.active
    /\ network' = [active |-> FALSE, nlayers |-> 0]
    /\ node' = NoNode
    /\ result' = NoResult

\* The tracer hands one node to its handler; the layers the handler added
\* stay in the builder whether or not it then failed.
Invoke(op, inputs, out) ==
    /\ network.active => network.nlayers < MaxLayers
    /\ node' = [op |-> op, inputs |-> inputs, net |-> network]
    /\ result' = out
    /\ network' = [network EXCEPT !.nlayers = @ + Len(out.calls)]

View ==
    \E inp \in Operand(network), shape \in {<<1, 128>>, <<1, 2, 64>>} :
        LET inputs == <<inp, IntList(shape)>>
        IN  Invoke("aten::view", inputs, aten_view(current_network, inputs))

Convolution ==
    \E inp \in Operand(network), weight \in Weights,
       bias \in {NoneValue, Vector}, stride \in Windows, transposed \in Flags,
       output_padding \in {<<0, 0>>, <<1, 0>>} :
        LET inputs == <<inp, weight, bias, IntList(stride), IntList(<<0, 0>>),
                        IntList(<<1, 1>>), Scalar(transposed),
                        IntList(output_padding), Scalar(1)>>
        IN  Invoke("aten::_convolution", inputs,
                   aten_convolution(current_network, inputs))

BatchNorm ==
    \E inp \in Operand(network) :
        LET inputs == <<inp, Vector, Vector, Vector, Vector, Scalar(0),
                        Scalar(1), Scalar(1)>>
        IN  Invoke("aten::batch_norm", inputs,
                   aten_batch_norm(current_network, inputs))

ReluInPlace ==
    \E inp \in Operand(network) :
        Invoke("aten::relu_", <<inp>>, aten_relu_(current_network, <<inp>>))

Relu ==
    \E inp \in Operand(network) :
        Invoke("aten::relu", <<inp>>, aten_relu(current_network, <<inp>>))

MaxPool2d ==
    \E inp \in Operand(network), ksize \in Windows, stride \in Windows,
       dilation \in {<<1, 1>>, <<2, 2>>} :
        LET inputs == <<inp, IntList(ksize), IntList(stride),
                        IntList(<<0, 0>>), IntList(dilation)>>
        IN  Invoke("aten::max_pool2d", inputs,
                   aten_max_pool2d(current_network, inputs))

AvgPool2d ==
    \E inp \in Operand(network), ksize \in Windows, flag \in Flags :
        LET inputs == <<inp, IntList(ksize), IntList(ksize),
                        IntList(<<0, 0>>), Scalar(0), Scalar(flag)>>
        IN  Invoke("aten::avg_pool2d", inputs,
                   aten_avg_pool2d(current_network, inputs))

AdaptiveAvgPool2d ==
    \E inp \in Operand(network), target \in Targets :
        LET inputs == <<inp, IntList(target)>>
        IN  Invoke("aten::adaptive_avg_pool2d", inputs,
                   aten_adaptive_avg_pool2d(current_network, inputs))

Dropout ==
    \E inp \in Operand(network) :
        LET inputs == <<inp, Scalar(0), Scalar(0)>>
        IN  Invoke("aten::dropout", inputs,
                   aten_dropout(current_network, inputs))

Addmm ==
    \E mat_to_add \in {Vector, Matrix}, mat1 \in Operand(network),
       beta \in Alphas, alpha \in Alphas :
        LET inputs == <<mat_to_add, mat1, Tensor(<<4, 8>>, <<>>, "float32"),
                        Scalar(beta), Scalar(alpha)>>
        IN  Invoke("aten::addmm", inputs, aten_addmm(current_network, inputs))

Cat ==
    \E tensors \in CatLists(network), dim \in {-1, 0, 1} :
        LET inputs == <<TensorList(tensors), Scalar(dim)>>
        IN  Invoke("aten::cat", inputs, aten_cat(current_network, inputs))

Slice ==
    \E inp \in Operand(network), dim \in SliceDims, start \in SliceStarts,
       end \in SliceEnds, step \in SliceSteps :
        LET inputs == <<inp, Scalar(dim), Scalar(start), Scalar(end),
                        Scalar(step)>>
        IN  Invoke("aten::slice", inputs, aten_slice(current_network, inputs))

Unsqueeze ==
    \E inp \in Operand(network), dim \in UnsqueezeDims :
        LET inputs == <<inp, Scalar(dim)>>
        IN  Invoke("aten::unsqueeze", inputs,
                   aten_unsqueeze(current_network, inputs))

Select ==
    \E inp \in Operand(network), dim \in SliceDims, index \in SelectIndexes :
        LET inputs == <<inp, Scalar(dim), Scalar(index)>>
        IN  Invoke("aten::select", inputs,
                   aten_select(current_network, inputs))

Mul ==
    \E lfs \in ElemOperand(network), rfs \in ElemOperand(network) :
        Invoke("aten::mul", <<lfs, rfs>>,
               aten_mul(current_network, <<lfs, rfs>>))

MulInPlace ==
    \E lfs \in ElemOperand(network), rfs \in ElemOperand(network) :
        Invoke("aten::mul_", <<lfs, rfs>>,
               aten_mul_(current_network, <<lfs, rfs>>))

AddInPlace ==
    \E lfs \in ElemOperand(network), rfs \in ElemOperand(network),
       alpha \in Alphas :
        LET inputs == <<lfs, rfs, Scalar(alpha)>>
        IN  Invoke("aten::add_", inputs, aten_add_(current_network, inputs))

Add ==
    \E lfs \in ElemOperand(network), rfs \in ElemOperand(network),
       alpha \in Alphas :
        LET inputs == <<lfs, rfs, Scalar(alpha)>>
        IN  Invoke("aten::add", inputs, aten_add(current_network, inputs))

Div ==
    \E lfs \in ElemOperand(network), rfs \in ElemOperand(network) :
        Invoke("aten::div", <<lfs, rfs>>,
               aten_div(current_network, <<lfs, rfs>>))

Sub ==
    \E lfs \in ElemOperand(network), rfs \in ElemOperand(network),
       alpha \in Alphas :
        LET inputs == <<lfs, rfs, Scalar(alpha)>>
        IN  Invoke("aten::sub", inputs, aten_sub(current_network, inputs))

Sum ==
    \E inp \in Operand(network), axes \in AxisLists, keepdim \in Flags :
        LET inputs == <<inp, IntList(axes), Scalar(keepdim)>>
        IN  Invoke("aten::sum", inputs, aten_sum(current_network, inputs))

Max ==
    \E inp \in Operand(network), dim \in {0, 1, 2}, keepdim \in Flags :
        LET inputs == <<inp, Scalar(dim), Scalar(keepdim)>>
        IN  Invoke("aten::max", inputs, aten_max(current_network, inputs))

Permute ==
    \E inp \in Operand(network), params \in Permutations :
        LET inputs == <<inp, IntList(params)>>
        IN  Invoke("aten::permute", inputs,
                   aten_permute(current_network, inputs))

Contiguous ==
    \E inp \in Operand(network) :
        Invoke("aten::contiguous", <<inp>>,
               aten_contiguous(current_network, <<inp>>))

ConstantPadNd ==
    \E inp \in Operand(network), pad_params \in Paddings, val \in {0, 1} :
        LET inputs == <<inp, IntList(pad_params), Scalar(val)>>
        IN  Invoke("aten::constant_pad_nd", inputs,
                   aten_constant_pad_nd(current_network, inputs))

Next ==
    \/ BeginConversion
    \/ EndConversion
    \/ View
    \/ Convolution
    \/ BatchNorm
    \/ ReluInPlace
    \/ Relu
    \/ MaxPool2d
    \/ AvgPool2d
    \/ AdaptiveAvgPool2d
    \/ Dropout
    \/ Addmm
    \/ Cat
    \/ Slice
    \/ Unsqueeze
    \/ Select
    \/ Mul
    \/ MulInPlace
    \/ AddInPlace
    \/ Add
    \/ Div
    \/ Sub
    \/ Sum
    \/ Max
    \/ Permute
    \/ Contiguous
    \/ ConstantPadNd

Spec == Init /\ [][Next]_vars

\* ------------------------------------------------------------------ claims
\* The node handled last ran in conversion mode by the universal gate.
Converting ==
    node.op # "none" /\ node.net.active /\ has_trt_tensor(node.inputs)

Calls == result.calls

NoSymbolicOutput ==
    \A i \in 1..Len(result.outputs) : result.outputs[i].kind # "trt"

\* C1: a handler other than aten::relu adds layers and returns symbolic
\* outputs only when a network is active and an operand is symbolic; without
\* a network, or without a symbolic operand, it adds no layer and returns no
\* symbolic output.  aten::relu adds one ReLU layer on its operand whenever
\* a network is active, also for a real operand, and none otherwise.
C1_ModeGate ==
    node.op # "none" =>
        IF node.op = "aten::relu"
        THEN /\ node.net.active =>
                  /\ result.status = "ok"
                  /\ Calls = <<[type |-> "activation",
                                input |-> node.inputs[1], act |-> "RELU"]>>
                  /\ result.outputs[1].kind = "trt"
             /\ ~node.net.active => Calls = <<>> /\ NoSymbolicOutput
        ELSE /\ ~Converting => Calls = <<>> /\ NoSymbolicOutput
             /\ Converting /\ result.status = "ok" =>
                  result.outputs[1].kind = "trt"

\* aten::relu_ with an active network and a real operand fell back.
C1_Witness ==
    /\ node.op = "aten::relu_"
    /\ node.net.active
    /\ ~has_trt_tensor(node.inputs)
    /\ result.status = "ok"
    /\ Calls = <<>>
    /\ result.outputs[1].kind = "torch"

\* --- C2
AdaptiveCase ==
    /\ node.op = "aten::adaptive_avg_pool2d"
    /\ Converting
    /\ Len(node.inputs[1].shape) = 3
    /\ Len(node.inputs[2].items) = 2

\* C2: in conversion mode aten::adaptive_avg_pool2d emits an average pooling
\* layer with kernel input_size / target_size per axis when the target
\* divides the input on both spatial axes, and otherwise fails without
\* emitting a layer.
C2_ExactDivisionOnly ==
    AdaptiveCase =>
        LET spatial == Rest(node.inputs[1].shape)
            target == node.inputs[2].items
        IN  IF \A j \in 1..2 : spatial[j] % target[j] = 0
            THEN /\ result.status = "ok"
                 /\ Calls = <<[type |-> "pooling", input |-> node.inputs[1],
                               pool |-> "AVERAGE",
                               window |-> [j \in 1..2 |->
                                             spatial[j] \div target[j]]]>>
            ELSE result.status = "fail" /\ Calls = <<>>

\* --- C3
ElemOps ==
    {"aten::mul", "aten::mul_", "aten::add", "aten::add_", "aten::div",
     "aten::sub"}

ElemMode ==
    CASE node.op \in {"aten::mul", "aten::mul_"} -> "PROD"
      [] node.op \in {"aten::add", "aten::add_"} -> "SUM"
      [] node.op = "aten::div" -> "DIV"
      [] node.op = "aten::sub" -> "SUB"

\* An elementwise node in conversion mode with alpha = 1.
ElemCase ==
    /\ node.op \in ElemOps
    /\ Converting
    /\ Len(node.inputs) = 3 => node.inputs[3].val = 1

Left == node.inputs[1]

Right == node.inputs[2]

SingleElement(x) == IsTorchTensor(x) /\ Len(x.data) = 1

MultiElement(x) == IsTorchTensor(x) /\ Len(x.data) > 1

OneElementwise ==
    Calls = <<[type |-> "elementwise", lfs |-> Left, rfs |-> Right,
               op |-> ElemMode]>>

\* exactly one uniform scale layer on main with the operator's weights
Folded(main, v) ==
    /\ Len(Calls) = 1
    /\ Calls[1].type = "scale"
    /\ Calls[1].mode = "UNIFORM"
    /\ Calls[1].input = main
    /\ Calls[1].power = <<1, 1>>
    /\ CASE ElemMode = "SUM" ->
              Calls[1].shift = <<v, 1>> /\ Calls[1].scale = <<1, 1>>
         [] ElemMode = "SUB" ->
              Calls[1].shift = <<-v, 1>> /\ Calls[1].scale = <<1, 1>>
         [] ElemMode = "PROD" ->
              Calls[1].shift = <<0, 1>> /\ Calls[1].scale = <<v, 1>>
         [] ElemMode = "DIV" ->
              Calls[1].shift = <<0, 1>> /\ Calls[1].scale = <<1, v>>

\* a constant layer for the real operand, then one elementwise layer on the
\* constant's output and the symbolic operand, sides kept
ConstantThenElementwise ==
    /\ Len(Calls) = 2
    /\ Calls[1].type = "constant"
    /\ Calls[1].data = (IF IsTorchTensor(Left) THEN Left.data ELSE Right.data)
    /\ Calls[2].type = "elementwise"
    /\ Calls[2].op = ElemMode
    /\ IF IsTorchTensor(Left)
       THEN /\ Calls[2].rfs = Right
            /\ Calls[2].lfs.kind = "trt"
            /\ Calls[2].lfs.layer = node.net.nlayers + 1
       ELSE /\ Calls[2].lfs = Left
            /\ Calls[2].rfs.kind = "trt"
            /\ Calls[2].rfs.layer = node.net.nlayers + 1

SliceOnBatchAxis ==
    node.op = "aten::slice" /\ Converting /\ node.inputs[2].val = 0

\* C4: in conversion mode aten::slice on axis 0 with start 0, step 1 and
\* end above 100,000,000 returns its input handle itself and adds no layer;
\* on axis 0 with any other start, end or step it fails and adds no layer.
C4_BatchSlice ==
    SliceOnBatchAxis =>
        IF /\ node.inputs[3].val = 0
           /\ node.inputs[5].val = 1
           /\ node.inputs[4].val > 100000000
        THEN /\ result.status = "ok"
             /\ result.outputs = <<node.inputs[1]>>
             /\ result.alias = 1
             /\ Calls = <<>>
             /\ network.nlayers = node.net.nlayers
        ELSE /\ result.status = "fail"
             /\ Calls = <<>>
             /\ network.nlayers = node.net.nlayers

\* The full-range batch-axis slice returned its input.
C4_Witness ==
    /\ SliceOnBatchAxis
    /\ node.inputs[4].val > 100000000
    /\ result.status = "ok"
    /\ result.outputs = <<node.inputs[1]>>

\* --- C5
\* add, add_ or sub in fallback mode on a real left operand and a real or
\* plain-number right operand whose shapes the operation accepts.
FallbackArith ==
    /\ node.op \in {"aten::add", "aten::add_", "aten::sub"}
    /\ ~Converting
    /\ IsTorchTensor(Left)
    /\ IsTorchTensor(Right) \/ IsNumber(Right)
    /\ node.op = "aten::add_" /\ IsTorchTensor(Right) =>
          \/ Right.shape = Left.shape
          \/ Len(Right.shape) = 0
          \/ Right.shape = <<1>> /\ Len(Left.shape) = 1

RightData == IF IsNumber(Right) THEN <<Right.val>> ELSE Right.data

\* the first output holds left + a*right (add, add_) or left - a*right (sub)
Computes(a) ==
    LET out == result.outputs[1]
        n == IF Len(Left.data) >= Len(RightData)
             THEN Len(Left.data) ELSE Len(RightData)
    IN  /\ result.status = "ok"
        /\ Len(result.outputs) = 1
        /\ out.kind = "torch"
        /\ Len(out.data) = n
        /\ \A i \in 1..n :
             out.data[i] =
                IF node.op = "aten::sub"
                THEN Elem(Left.data, i) - a * Elem(RightData, i)
                ELSE Elem(Left.data, i) + a * Elem(RightData, i)

\* add_ returns the mutated left operand, add and sub a new tensor
Aliasing ==
    IF node.op = "aten::add_"
    THEN result.alias = 1 /\ result.mut = <<result.outputs[1]>>
    ELSE result.alias = 0 /\ result.mut = <<>>

\* C5 as claimed: in fallback mode add, add_ and sub return
\* left +/- alpha*right for every alpha.
C5_HonoursAlpha ==
    FallbackArith => Computes(node.inputs[3].val) /\ Aliasing

\* C5 amended: in fallback mode add, add_ and sub accept alpha = 1 only:
\* with alpha = 1 they return left + right (add, add_) or left - right
\* (sub), add_ mutating and returning the left operand and add and sub
\* returning a new tensor; with any other alpha they fail and leave the
\* left operand as it was.
C5_AlphaOneOnly ==
    FallbackArith =>
        IF node.inputs[3].val = 1
        THEN Computes(1) /\ Aliasing
        ELSE result.status = "fail" /\ result.mut = <<>>

\* aten::sub in fallback mode was given alpha = 2 and failed.
C5_Witness ==
    /\ node.op = "aten::sub"
    /\ FallbackArith
    /\ node.inputs[3].val = 2
    /\ result.status = "fail"

\* --- C6
\* The node's kernel / stride / padding / pad-amount lists describe a
\* number of spatial dimensions other than 2.
NotTwoSpatialDims ==
    CASE node.op = "aten::_convolution" ->
            \/ Len(node.inputs[2].shape) # 4
            \/ \E i \in 4..6 : Len(node.inputs[i].items) # 2
      [] node.op \in {"aten::max_pool2d", "aten::avg_pool2d"} ->
            \E i \in 2..4 : Len(node.inputs[i].items) # 2
      [] node.op = "aten::adaptive_avg_pool2d" ->
            Len(node.inputs[2].items) # 2
      [] node.op = "aten::constant_pad_nd" ->
            Len(node.inputs[2].items) # 4
      [] OTHER -> FALSE

\* C6: the convolution, pooling and constant_pad_nd handlers, in conversion
\* mode with lists that describe another number of spatial dimensions than
\* 2, fail instead of emitting a layer.
C6_TwoSpatialDimsOnly ==
    Converting /\ NotTwoSpatialDims =>
        result.status = "fail" /\ Calls = <<>>

\* --- C7
\* The node asks for the batch axis of a symbolic tensor.
BatchAxisRequest ==
    CASE node.op \in {"aten::unsqueeze", "aten::select", "aten::max",
                      "aten::cat", "aten::slice"} ->
            node.inputs[2].val = 0
      [] node.op = "aten::sum" ->
            \E i \in 1..Len(node.inputs[2].items) : node.inputs[2].items[i] = 0
      [] node.op = "aten::permute" ->
            \E i \in 2..Len(node.inputs[2].items) : node.inputs[2].items[i] = 0
      [] OTHER -> FALSE

FullRangeSlice ==
    /\ node.op = "aten::slice"
    /\ node.inputs[3].val = 0
    /\ node.inputs[5].val = 1
    /\ node.inputs[4].val > 100000000

\* C7: in conversion mode unsqueeze, select, sum, max and cat fail on axis
\* 0, permute fails when an entry after the first is 0, the squeeze helper
\* fails on axis 0, and the only axis-0 request that succeeds is the
\* full-range slice; a rejected request adds no layer.
C7_BatchAxisRejected ==
    /\ Converting /\ BatchAxisRequest =>
          IF FullRangeSlice
          THEN result.status = "ok"
          ELSE result.status = "fail" /\ Calls = <<>>
    /\ Converting /\ node.op = "aten::select" =>
          _trt_squeeze(node.inputs[1], 0).failed

\* aten::cat over symbolic tensors was asked for axis 0 and failed.
C7_Witness ==
    /\ node.op = "aten::cat"
    /\ Converting
    /\ node.inputs[2].val = 0
    /\ result.status = "fail"

\* --- C8
\* C8: a handler that fails in conversion mode leaves the active network
\* with exactly the layers it held before the invocation.
C8_FailureAddsNothing ==
    Converting /\ result.status = "fail" =>
        network.nlayers = node.net.nlayers /\ Calls = <<>>

\* --- C9
\* the exclusive end of the window the node asks for
WindowEnd ==
    IF node.op = "aten::slice" THEN node.inputs[4].val
    ELSE node.inputs[3].val + 1

\* C9: every slice layer emitted by aten::slice or aten::select for a
\* tensor of rank r is an in-bounds window on engine axis dim-1 only, with
\* 0 <= dim-1 < r: (0, full, 1) on every other axis, and on that axis stride
\* 1, 0 <= start, 0 <= size, start + size <= dimension and
\* size = min(end, dimension) - start; or the handler fails.
C9_SliceInBounds ==
    node.op \in {"aten::slice", "aten::select"} /\ Converting =>
        \/ result.status = "fail"
        \/ \A k \in 1..Len(Calls) :
              Calls[k].type = "slice" =>
                 LET shape == node.inputs[1].shape
                     r == Len(shape)
                     dim == node.inputs[2].val
                     l == Calls[k]
                 IN  /\ 1 <= dim /\ dim <= r
                     /\ \A i \in 1..r :
                          i # dim =>
                             /\ l.start[i] = 0
                             /\ l.shape[i] = shape[i]
                             /\ l.stride[i] = 1
                     /\ l.stride[dim] = 1
                     /\ 0 <= l.start[dim]
                     /\ 0 <= l.shape[dim]
                     /\ l.start[dim] + l.shape[dim] <= shape[dim]
                     /\ l.shape[dim] = Min(WindowEnd, shape[dim]) - l.start[dim]

\* --- C10
\* the operand an elementwise layer must hold for a node operand: the
\* operand itself when symbolic, else the output of a constant layer of
\* this node
Materialized(given, operand) ==
    /\ given.kind = "trt"
    /\ IF IsITensor(operand) THEN given = operand
       ELSE /\ given.layer > node.net.nlayers
            /\ Calls[given.layer - node.net.nlayers].type = "constant"

\* C10: in conversion mode every operand a mul, mul_, add, add_, div or sub
\* node hands to an elementwise layer is a symbolic handle, left first and
\* right second, a real tensor or plain number having been replaced by the
\* output of a constant layer.
C10_ElementwiseOperandsSymbolic ==
    node.op \in ElemOps /\ Converting =>
        \A k \in 1..Len(Calls) :
            Calls[k].type = "elementwise" =>
                /\ Materialized(Calls[k].lfs, Left)
                /\ Materialized(Calls[k].rfs, Right)

====
